---- MODULE Spec2Model ----
(***************************************************************************)
(* Model of the semantic memory store of src/memory.py (SemanticMemory):   *)
(* an entry list, a FAISS IndexFlatL2 index and a counter, with the        *)
(* operations add_memory, retrieve_similar, get_stats and reset.           *)
(*                                                                         *)
(* Texts are sequences of one-character strings.  A vector is abstracted   *)
(* to one integer coordinate, so the squared L2 distance of two vectors is *)
(* the square of the difference of their coordinates.  Similarities are    *)
(* kept in thousandths (the code rounds to 3 decimal digits).              *)
(***************************************************************************)
EXTENDS Integers, Sequences, FiniteSets, TLC

\* ------------------------------------------------------------------ bounds
MaxEntries == 3          \* most entries the store holds in the model
MaxK == 4                \* largest top_k tried
MaxClock == 3            \* most entries created in one run
MaxCalls == 3            \* most calls started in the concurrent specification
MaxDist == 2100          \* largest distance tried on the similarity formula
MaxTurns == 2            \* most process_message turns in the agent specification

\* ------------------------------------------------------- program constants
EmbeddingDim == 384
DefaultTopK == 3
HugeDist == 1000000      \* distance FAISS reports for a missing neighbour
NoIdx == -1              \* label FAISS reports for a missing neighbour

\* ------------------------------------------------------------------ inputs
Roles == { "user", "assistant" }
\* the (text, role) pairs add_memory is called with
AddInputs == { <<(<<>>), "user">>, <<(<<" ">>), "user">>, <<(<<"a">>), "user">>,
               <<(<<"a", " ">>), "assistant">>, <<(<<"b">>), "assistant">> }
\* the queries retrieve_similar is called with
Queries == { <<"a">>, <<"c">> }
\* the limits get_recent_context is called with
DefaultLimit == 5
Limits == { 0, 1, 2, DefaultLimit }
ConcTexts == { <<"a">>, <<"b">> }
Threads == { "t1", "t2" }

VARIABLES
  memories,       \* self.memories: sequence of entries
  index,          \* self.index: sequence of vectors, position i+1 = FAISS id i
  total_entries,  \* self.total_entries
  embedding_dim,  \* self.embedding_dim
  clock,          \* datetime.now(): it ticks once per entry created
  tieBreak,       \* how this FAISS build orders neighbours at equal distance
  op,             \* name of the call that finished last
  arg_q, arg_k, arg_ex,   \* arguments of the last retrieve_similar
  arg_th,         \* threshold passed to the last retrieve_similar, or NoIdx
  arg_text,       \* text passed to the last add_memory
  arg_limit,      \* limit passed to the last get_recent_context
  result,         \* what the last retrieve_similar returned
  stats,          \* what the last get_stats returned
  recent,         \* what the last get_recent_context returned
  raised,         \* TRUE when the last call ended by raising
  fault,          \* what failed under the last call: "none", "encode", ...
  resets,         \* resets in a row up to the last call, at most 2 counted;
                  \* an add_memory that follows them keeps the number
  again,          \* TRUE when the last call repeated the call before it
  lastMut,        \* last call that changed the store: "init", "add", "reset"
  pc, loc,        \* per thread: position and locals (concurrent specification)
  calls,          \* calls started so far (concurrent specification)
  dist, sim,      \* input and output of the similarity formula (SpecSim)
  groq_client,    \* agent.groq_client: NoKey for None, else the key it holds
  env_key,        \* os.environ["GROQ_API_KEY"], NoKey when not set
  creative_intent,        \* agent.creative_intent: intent name -> count
  conversation_context,   \* agent.conversation_context
  response,       \* response the last agent call returned
  similar_memories,       \* similar_memories of the last process_message
  memory_panel,   \* memory panel the last agent call returned
  llm,            \* what the LLM step of the last turn did
  before,         \* number of entries stored when the last agent call began
  status,         \* status message the last save handler returned
  turns,          \* process_message turns so far (agent specification)
  ui,             \* entry point that runs the agent: "main", "app", "none"
  heap,           \* the metadata dictionaries alive: reference -> set of keys
  entry_meta,     \* entry i's metadata attribute, as a reference (SpecAlias)
  passed,         \* references of the dictionaries the caller passed in
  held            \* the result dictionaries the caller got back last

storeVars == <<memories, index, total_entries, embedding_dim>>
histVars == <<op, arg_q, arg_k, arg_ex, arg_th, arg_text, arg_limit, result,
              stats, recent, raised, fault, resets, again, lastMut>>
concVars == <<pc, loc, calls>>
simVars == <<dist, sim>>
agentVars == <<groq_client, env_key, creative_intent, conversation_context>>
agentHist == <<response, similar_memories, memory_panel, llm, before, status,
               turns, ui>>
aliasVars == <<heap, entry_meta, passed, held>>
vars == <<memories, index, total_entries, embedding_dim, clock, tieBreak,
          op, arg_q, arg_k, arg_ex, arg_th, arg_text, arg_limit, result,
          stats, recent, raised, fault, resets, again, lastMut,
          pc, loc, calls, dist, sim,
          groq_client, env_key, creative_intent, conversation_context,
          response, similar_memories, memory_panel, llm, before, status, turns,
          ui, heap, entry_meta, passed, held>>

\* ------------------------------------------------------------ pure helpers
Min(a, b) == IF a <= b THEN a ELSE b

IsSpace(c) == c = " "

RECURSIVE LStrip(_)
LStrip(t) == IF t # <<>> /\ IsSpace(Head(t)) THEN LStrip(Tail(t)) ELSE t

RECURSIVE RStrip(_)
RStrip(t) ==
  IF t # <<>> /\ IsSpace(t[Len(t)]) THEN RStrip(SubSeq(t, 1, Len(t) - 1)) ELSE t

\* str.strip()
Strip(t) == RStrip(LStrip(t))

\* coordinate every character contributes to the embedding
CharVal(c) == CASE c = "a" -> 16
                [] c = "b" -> 17
                [] c = "c" -> 1
                [] OTHER   -> 0

\* self.model.encode([text])[0]: a deterministic function of the text
RECURSIVE Encode(_)
Encode(t) == IF t = <<>> THEN 0 ELSE CharVal(Head(t)) + Encode(Tail(t))

\* squared L2 distance, as IndexFlatL2 reports it
L2Sqr(u, v) == (u - v) * (u - v)

\* round(x, 3) of the quotient num/den, in thousandths, ties to even
RoundMilli(num, den) ==
  LET q == (1000 * num) \div den
      r == (1000 * num) % den
  IN  IF 2 * r > den THEN q + 1
      ELSE IF 2 * r < den THEN q
      ELSE IF q % 2 = 0 THEN q ELSE q + 1

\* round(1.0 / (1.0 + dist), 3), in thousandths
Similarity_Linear(d) == 1000 - 1000 * d
Similarity(d) == RoundMilli(1, 1 + d)

\* ------------------------------------------------------------ FAISS index
\* faiss.IndexFlatL2.add
IndexAdd_Dropped(ix, v) == ix
IndexAdd(ix, v) == Append(ix, v)

\* order in which the index reports positions i and j (1-based) for query qv:
\* nearer first; at equal distance the order the build's result heap gives
Before_Farthest(ix, tb, qv, i, j) ==
  \/ L2Sqr(qv, ix[i]) > L2Sqr(qv, ix[j])
  \/ /\ L2Sqr(qv, ix[i]) = L2Sqr(qv, ix[j])
     /\ IF tb = "lowId" THEN i <= j ELSE i >= j
Before(ix, tb, qv, i, j) ==
  \/ L2Sqr(qv, ix[i]) < L2Sqr(qv, ix[j])
  \/ /\ L2Sqr(qv, ix[i]) = L2Sqr(qv, ix[j])
     /\ IF tb = "lowId" THEN i <= j ELSE i >= j

RECURSIVE RankFrom(_, _, _, _)
RankFrom(ix, tb, qv, S) ==
  IF S = {} THEN <<>>
  ELSE LET m == CHOOSE i \in S : \A j \in S : Before(ix, tb, qv, i, j)
       IN  <<m>> \o RankFrom(ix, tb, qv, S \ {m})

\* faiss.IndexFlatL2.search(query, k): k (distance, label) pairs, nearest
\* first, labels 0-based, padded with (HugeDist, -1) past the index size
Search(ix, tb, qv, k) ==
  LET r == RankFrom(ix, tb, qv, 1..Len(ix))
  IN  [n \in 1..k |->
         IF n <= Len(ix)
         THEN [dist |-> L2Sqr(qv, ix[r[n]]), idx |-> r[n] - 1]
         ELSE [dist |-> HugeDist, idx |-> NoIdx]]

\* ------------------------------------------------------- retrieve_similar
\* line 110: if self.total_entries == 0
IsEmptyStore(total) == total = 0

\* line 118: search_k
SearchK_Unclamped(top_k, ex, total) == top_k + (IF ex THEN 1 ELSE 0)
SearchK(top_k, ex, total) == Min(top_k + (IF ex THEN 1 ELSE 0), total)

\* line 128: memory.text.strip() == message.strip()
IsExactMatch_Never(text, q) == FALSE
IsExactMatch(text, q) == Strip(text) = Strip(q)

\* MemoryEntry.to_dict plus the similarity key (lines 132-136); idx and dist
\* are not in the code's dictionary: they record which entry the result came
\* from and the distance the index reported for it
ResultOf(memory, item, pos) ==
  [text |-> memory.text, role |-> memory.role,
   timestamp |-> memory.timestamp,
   similarity |-> Similarity(item.dist),
   idx |-> pos, dist |-> item.dist]

\* line 124: idx < len(self.memories)
InRange(item, mems) == item.idx < Len(mems)

\* line 125: self.memories[idx] as Python indexes a list: a negative idx
\* counts from the end; the 0-based position read, or NoIdx for IndexError
Fetch(item, mems) ==
  LET pos == IF item.idx < 0 THEN item.idx + Len(mems) ELSE item.idx
  IN  IF pos < 0 \/ pos >= Len(mems) THEN NoIdx ELSE pos

\* lines 125-143 of one loop iteration on the search hit `item`, acc being
\* `results`: fetch the entry, skip an exact match, append, break at top_k
LoopBody(item, mems, q, top_k, ex, acc) ==
  LET pos == Fetch(item, mems)
  IN  IF pos = NoIdx
      THEN [acc |-> acc, raised |-> TRUE, brk |-> TRUE]
      ELSE IF ex /\ IsExactMatch(mems[pos + 1].text, q)
      THEN [acc |-> acc, raised |-> FALSE, brk |-> FALSE]
      ELSE LET acc2 == Append(acc, ResultOf(mems[pos + 1], item, pos))
           IN  [acc |-> acc2, raised |-> FALSE, brk |-> Len(acc2) >= top_k]

\* one iteration of the loop of lines 123-143
LoopStep(item, mems, q, top_k, ex, acc) ==
  IF InRange(item, mems)
  THEN LoopBody(item, mems, q, top_k, ex, acc)
  ELSE [acc |-> acc, raised |-> FALSE, brk |-> FALSE]

\* the whole loop of lines 122-143 from hit number i on
RECURSIVE Collect(_, _, _, _, _, _, _)
Collect(res, i, mems, q, top_k, ex, acc) ==
  IF i > Len(res) THEN [results |-> acc, raised |-> FALSE]
  ELSE LET s == LoopStep(res[i], mems, q, top_k, ex, acc)
       IN  IF s.raised THEN [results |-> <<>>, raised |-> TRUE]
           ELSE IF s.brk THEN [results |-> s.acc, raised |-> FALSE]
           ELSE Collect(res, i + 1, mems, q, top_k, ex, s.acc)

\* number of elements of s whose similarity is >= x (resp. <= x)
RECURSIVE CountGeq(_, _)
CountGeq(s, x) ==
  IF s = <<>> THEN 0
  ELSE (IF Head(s).similarity >= x THEN 1 ELSE 0) + CountGeq(Tail(s), x)

RECURSIVE CountLeq(_, _)
CountLeq(s, x) ==
  IF s = <<>> THEN 0
  ELSE (IF Head(s).similarity <= x THEN 1 ELSE 0) + CountLeq(Tail(s), x)

InsertAt(s, n, x) == SubSeq(s, 1, n) \o <<x>> \o SubSeq(s, n + 1, Len(s))

Reverse(s) == [n \in 1..Len(s) |-> s[Len(s) + 1 - n]]

\* sorted(results, key=similarity): stable, ascending
RECURSIVE SortedAsc(_)
SortedAsc(s) ==
  IF s = <<>> THEN <<>>
  ELSE LET front == SortedAsc(SubSeq(s, 1, Len(s) - 1))
           x == s[Len(s)]
       IN  InsertAt(front, CountLeq(front, x.similarity), x)

\* sorted(results, key=similarity): reverse=True left out
SortedDesc_Ascending(s) == SortedAsc(s)

\* sorted(results, key=similarity)[::-1]: descending, ties back to front
SortedDesc_Reversed(s) == Reverse(SortedAsc(s))

\* line 145: sorted(results, key=similarity, reverse=True): stable, so
\* results of equal similarity keep the order the loop produced them in
RECURSIVE SortedDesc(_)
SortedDesc(s) ==
  IF s = <<>> THEN <<>>
  ELSE LET front == SortedDesc(SubSeq(s, 1, Len(s) - 1))
           x == s[Len(s)]
       IN  InsertAt(front, CountGeq(front, x.similarity), x)

\* retrieve_similar as a function of the store it reads
RetrieveResult(mems, ix, total, tb, q, top_k, ex) ==
  IF IsEmptyStore(total) THEN [results |-> <<>>, raised |-> FALSE]
  ELSE LET search_k == SearchK(top_k, ex, total)
       IN  IF search_k <= 0 THEN [results |-> <<>>, raised |-> TRUE]
           ELSE LET res == Search(ix, tb, Encode(q), search_k)
                    c == Collect(res, 1, mems, q, top_k, ex, <<>>)
                IN  [results |-> SortedDesc(c.results), raised |-> c.raised]

\* get_stats with line 169 reading self.memories[0]
StatsOf_Oldest(mems, total, dim) ==
  [total_entries |-> total,
   index_size_bytes |-> total * dim * 4,
   embedding_dim |-> dim,
   latest_timestamp |-> IF mems # <<>> THEN mems[1].timestamp ELSE NoIdx]

\* get_stats (lines 165-176); None is written as NoIdx
StatsOf(mems, total, dim) ==
  [total_entries |-> total,
   index_size_bytes |-> total * dim * 4,
   embedding_dim |-> dim,
   latest_timestamp |-> IF mems # <<>> THEN mems[Len(mems)].timestamp ELSE NoIdx]

\* MemoryEntry(text, role, datetime.now(), metadata)
MemoryEntry(text, role, timestamp) ==
  [text |-> text, role |-> role, timestamp |-> timestamp]

\* datetime.isoformat(): the timestamp as a string
IsoFormat(timestamp) == <<"iso", timestamp>>

\* mems[start:] as Python slices it
SliceFrom(mems, start) ==
  LET n == Len(mems)
      from == IF start < 0 THEN (IF n + start < 0 THEN 0 ELSE n + start)
              ELSE Min(start, n)
  IN  SubSeq(mems, from + 1, n)

\* get_recent_context as a function of the entries (lines 149-157)
RecentOf(mems, limit) ==
  LET recent_memories == IF mems # <<>> THEN SliceFrom(mems, 0 - limit) ELSE <<>>
  IN  [i \in 1..Len(recent_memories) |->
         [role |-> recent_memories[i].role,
          content |-> recent_memories[i].text,
          timestamp |-> IsoFormat(recent_memories[i].timestamp)]]

\* no API key (None or ""), no client (None)
NoKey == <<>>

\* the empty creative_intent dictionary: a count of 0 stands for a key that
\* is not in the dictionary (the code only ever stores counts >= 1)
NoIntent == [writing_projects |-> 0, planning_activities |-> 0,
             learning_queries |-> 0, problem_solving |-> 0]

\* no memory panel returned
NoPanel == [total_entries |-> NoIdx, latest_timestamp |-> NoIdx,
            creative_intent |-> NoIntent, similar_memories |-> <<>>]

NoStats == [total_entries |-> 0, index_size_bytes |-> 0,
            embedding_dim |-> 0, latest_timestamp |-> NoIdx]

\* ------------------------------------------------- sequential operations
InitStore ==
  /\ memories = <<>>
  /\ index = <<>>
  /\ total_entries = 0
  /\ embedding_dim = EmbeddingDim
  /\ clock = 0
  /\ tieBreak \in {"lowId", "highId"}

InitHist ==
  /\ op = "init"
  /\ arg_q = <<>>
  /\ arg_k = 0
  /\ arg_ex = FALSE
  /\ result = <<>>
  /\ stats = NoStats
  /\ raised = FALSE
  /\ lastMut = "init"
  /\ arg_th = NoIdx
  /\ arg_text = <<>>
  /\ arg_limit = 0
  /\ recent = <<>>
  /\ fault = "none"
  /\ resets = 0
  /\ again = FALSE

\* locals of a thread that has made no call yet
NoCall ==
  [op |-> "none", text |-> <<>>, role |-> "none", q |-> <<>>, k |-> 0,
   ex |-> FALSE, ts |-> 0, tmp |-> 0, search_k |-> 0, res |-> <<>>, i |-> 0,
   acc |-> <<>>, seenTotal |-> NoIdx, seenN |-> NoIdx, seenLen |-> NoIdx,
   ret |-> <<>>, latest |-> NoIdx, retTotal |-> NoIdx, raised |-> FALSE,
   startAligned |-> FALSE, during |-> {}]

InitConc ==
  /\ pc = [t \in Threads |-> "idle"]
  /\ loc = [t \in Threads |-> NoCall]
  /\ calls = 0

InitSim ==
  /\ dist = 0
  /\ sim = NoIdx

\* ThreadAgent.__init__ (agent.py lines 26-30), in a process started
\* without GROQ_API_KEY, and no agent call made yet
InitAgent ==
  /\ groq_client = NoKey
  /\ env_key = NoKey
  /\ creative_intent = NoIntent
  /\ conversation_context = <<>>
  /\ response = <<>>
  /\ similar_memories = <<>>
  /\ memory_panel = NoPanel
  /\ llm = "none"
  /\ before = 0
  /\ status = <<>>
  /\ turns = 0

\* no metadata dictionary made yet, no result handed out
InitAlias ==
  /\ heap = <<>>
  /\ entry_meta = <<>>
  /\ passed = {}
  /\ held = <<>>

Init ==
  /\ InitStore /\ InitHist /\ InitConc /\ InitSim /\ InitAgent /\ InitAlias
  /\ ui = "none"

\* the part of the call record only some calls fill in
Plain ==
  /\ arg_th' = NoIdx
  /\ arg_limit' = 0
  /\ recent' = <<>>
  /\ fault' = "none"
  /\ again' = FALSE

\* the record of the last call: its name, and nothing left of earlier calls
Called(name) ==
  /\ op' = name
  /\ arg_q' = <<>>
  /\ arg_k' = 0
  /\ arg_ex' = FALSE
  /\ result' = <<>>
  /\ stats' = NoStats
  /\ raised' = FALSE
  /\ Plain

\* resets in a row once one more reset has run
ResetsAfterReset == IF op = "reset" THEN Min(resets + 1, 2) ELSE 1

\* add_memory without the check of lines 69-70: the blank text is stored
AddMemoryBlank_Stored(text, role) ==
  /\ Strip(text) = <<>>
  /\ Len(memories) < MaxEntries
  /\ clock < MaxClock
  /\ clock' = clock + 1
  /\ index' = IndexAdd(index, Encode(text))
  /\ memories' = Append(memories, MemoryEntry(text, role, clock + 1))
  /\ total_entries' = total_entries + 1
  /\ Called("add_memory")
  /\ arg_text' = text
  /\ resets' = 0
  /\ lastMut' = "add"
  /\ UNCHANGED <<embedding_dim, tieBreak, concVars, simVars,
                 agentVars, agentHist, aliasVars>>

\* add_memory(text, role) with a blank text: lines 69-70
AddMemoryBlank(text, role) ==
  /\ Strip(text) = <<>>
  /\ Called("add_memory")
  /\ arg_text' = text
  /\ resets' = 0
  /\ UNCHANGED <<storeVars, clock, tieBreak, lastMut, concVars, simVars,
                 agentVars, agentHist, aliasVars>>

\* add_memory with lines 85-88 alone, the counter of line 89 left as it was
AddMemory_NoCount(text, role) ==
  /\ Strip(text) # <<>>
  /\ Len(memories) < MaxEntries
  /\ clock < MaxClock
  /\ clock' = clock + 1
  /\ index' = IndexAdd(index, Encode(text))
  /\ memories' = Append(memories, MemoryEntry(text, role, clock + 1))
  /\ Called("add_memory")
  /\ arg_text' = text
  /\ resets' = IF op = "reset" THEN resets ELSE 0
  /\ lastMut' = "add"
  /\ UNCHANGED <<total_entries, embedding_dim, tieBreak, concVars, simVars,
                 agentVars, agentHist, aliasVars>>

\* add_memory with line 88 as self.memories.insert(0, entry)
AddMemory_Prepend(text, role) ==
  /\ Strip(text) # <<>>
  /\ Len(memories) < MaxEntries
  /\ clock < MaxClock
  /\ clock' = clock + 1
  /\ index' = IndexAdd(index, Encode(text))
  /\ memories' = <<MemoryEntry(text, role, clock + 1)>> \o memories
  /\ total_entries' = total_entries + 1
  /\ Called("add_memory")
  /\ arg_text' = text
  /\ resets' = IF op = "reset" THEN resets ELSE 0
  /\ lastMut' = "add"
  /\ UNCHANGED <<embedding_dim, tieBreak, concVars, simVars,
                 agentVars, agentHist, aliasVars>>

\* add_memory(text, role) with a non-blank text: lines 72-89
AddMemory(text, role) ==
  /\ Strip(text) # <<>>
  /\ Len(memories) < MaxEntries
  /\ clock < MaxClock
  /\ clock' = clock + 1
  /\ index' = IndexAdd(index, Encode(text))
  /\ memories' = Append(memories, MemoryEntry(text, role, clock + 1))
  /\ total_entries' = total_entries + 1
  /\ Called("add_memory")
  /\ arg_text' = text
  /\ resets' = IF op = "reset" THEN resets ELSE 0
  /\ lastMut' = "add"
  /\ UNCHANGED <<embedding_dim, tieBreak, concVars, simVars,
                 agentVars, agentHist, aliasVars>>

\* what retrieve_similar does to the store: nothing
RetrieveFrame_Counts ==
  /\ total_entries' = total_entries + 1
  /\ UNCHANGED <<memories, index, embedding_dim>>
RetrieveFrame == UNCHANGED storeVars

\* retrieve_similar(q, k, ex): lines 93-145
RetrieveSimilar(q, k, ex) ==
  /\ LET r == RetrieveResult(memories, index, total_entries, tieBreak, q, k, ex)
     IN  /\ result' = r.results
         /\ raised' = r.raised
  /\ op' = "retrieve_similar"
  /\ arg_q' = q
  /\ arg_k' = k
  /\ arg_ex' = ex
  /\ stats' = NoStats
  /\ Plain
  /\ arg_text' = <<>>
  /\ resets' = 0
  /\ RetrieveFrame
  /\ UNCHANGED <<clock, tieBreak, lastMut, concVars, simVars,
                 agentVars, agentHist, aliasVars>>

\* get_stats(): lines 165-176
GetStats ==
  /\ stats' = StatsOf(memories, total_entries, embedding_dim)
  /\ op' = "get_stats"
  /\ arg_q' = <<>>
  /\ arg_k' = 0
  /\ arg_ex' = FALSE
  /\ result' = <<>>
  /\ raised' = FALSE
  /\ Plain
  /\ arg_text' = <<>>
  /\ resets' = 0
  /\ UNCHANGED <<storeVars, clock, tieBreak, lastMut, concVars, simVars,
                 agentVars, agentHist, aliasVars>>

\* get_recent_context(limit): lines 147-157
GetRecentContext(limit) ==
  /\ recent' = RecentOf(memories, limit)
  /\ op' = "get_recent_context"
  /\ arg_limit' = limit
  /\ arg_q' = <<>>
  /\ arg_k' = 0
  /\ arg_ex' = FALSE
  /\ arg_th' = NoIdx
  /\ result' = <<>>
  /\ stats' = NoStats
  /\ raised' = FALSE
  /\ fault' = "none"
  /\ again' = FALSE
  /\ arg_text' = <<>>
  /\ resets' = 0
  /\ UNCHANGED <<storeVars, clock, tieBreak, lastMut, concVars, simVars,
                 agentVars, agentHist, aliasVars>>

\* reset(): lines 178-183
Reset_KeepsTotal ==
  /\ index' = <<>>
  /\ memories' = <<>>
  /\ Called("reset")
  /\ arg_text' = <<>>
  /\ resets' = ResetsAfterReset
  /\ lastMut' = "reset"
  /\ UNCHANGED <<total_entries, embedding_dim, clock, tieBreak, concVars, simVars,
                 agentVars, agentHist, aliasVars>>
Reset_KeepsEntries ==
  /\ index' = <<>>
  /\ total_entries' = 0
  /\ Called("reset")
  /\ arg_text' = <<>>
  /\ resets' = ResetsAfterReset
  /\ lastMut' = "reset"
  /\ UNCHANGED <<memories, embedding_dim, clock, tieBreak, concVars, simVars,
                 agentVars, agentHist, aliasVars>>
Reset ==
  /\ index' = <<>>
  /\ memories' = <<>>
  /\ total_entries' = 0
  /\ Called("reset")
  /\ arg_text' = <<>>
  /\ resets' = ResetsAfterReset
  /\ lastMut' = "reset"
  /\ UNCHANGED <<embedding_dim, clock, tieBreak, concVars, simVars,
                 agentVars, agentHist, aliasVars>>

Next ==
  \/ \E in \in AddInputs : AddMemoryBlank(in[1], in[2])
  \/ \E in \in AddInputs : AddMemory(in[1], in[2])
  \/ \E q \in Queries, k \in 1..MaxK, ex \in BOOLEAN : RetrieveSimilar(q, k, ex)
  \/ GetStats
  \/ \E limit \in Limits : GetRecentContext(limit)
  \/ Reset

Spec == Init /\ [][Next]_vars

\* ------------------------------------------------------------------ claims
IsRetrieve == op = "retrieve_similar"

\* number of stored entries whose stripped text equals the stripped query
MatchesOf(mems, q) == { i \in 1..Len(mems) : Strip(mems[i].text) = Strip(q) }

\* C1: between any two calls of a sequential run, the number of entries, the
\* number of vectors in the index and total_entries are equal, and index
\* position i holds the vector of the entry at offset i.
C1_Alignment ==
  /\ Len(memories) = Len(index)
  /\ Len(index) = total_entries
  /\ \A i \in 1..Len(memories) : index[i] = Encode(memories[i].text)

\* two entries stored after an earlier reset
C1_Witness ==
  /\ lastMut = "add"
  /\ Len(memories) = 2
  /\ clock > Len(memories)
  /\ memories[1].text # memories[2].text

\* C2 as stated: retrieve_similar(q, top_k=k) on n entries returns exactly
\* min(k, n) results and raises nothing, for every q, k >= 1 and exclude flag.
C2_Original ==
  IsRetrieve => /\ ~raised
                /\ Len(result) = Min(arg_k, Len(memories))

\* C2 amended: retrieve_similar never raises and never returns more than
\* min(k, n) results; it returns exactly min(k, n) when exclude_current is
\* off or no stored entry matches the query after stripping.
C2_TopKClamp ==
  IsRetrieve =>
    /\ ~raised
    /\ Len(result) <= Min(arg_k, Len(memories))
    /\ (~arg_ex \/ MatchesOf(memories, arg_q) = {})
         => Len(result) = Min(arg_k, Len(memories))

\* the default arguments on a store of two entries: both come back
C2_Witness ==
  /\ IsRetrieve
  /\ arg_k = DefaultTopK
  /\ arg_ex
  /\ Len(memories) = 2
  /\ arg_k > Len(memories)
  /\ Len(result) = Len(memories)

\* C5: a retrieve_similar call leaves the entries, the index, total_entries
\* and embedding_dim as they were.
C5_ReadOnly == [][op' = "retrieve_similar" => UNCHANGED storeVars]_vars

\* a retrieve_similar that searched a populated store and returned entries
C5_Witness ==
  /\ IsRetrieve
  /\ Len(memories) >= 2
  /\ Len(result) >= 1

\* C6: on a fresh store, and on a store whose last mutating call was reset,
\* retrieve_similar returns the empty list and raises nothing.
C6_EmptyStore ==
  (IsRetrieve /\ lastMut \in {"init", "reset"}) => (result = <<>> /\ ~raised)

\* a query on a store that was populated and then reset
C6_Witness ==
  /\ IsRetrieve
  /\ lastMut = "reset"
  /\ clock >= 2
  /\ arg_k >= 1

\* C7: with exclude_current on, no returned result has the text of the query.
C7_ExactMatchExcluded ==
  (IsRetrieve /\ arg_ex) => \A i \in 1..Len(result) : result[i].text # arg_q

\* the query is the text added last, other entries are returned
C7_Witness ==
  /\ IsRetrieve
  /\ arg_ex
  /\ Len(memories) >= 2
  /\ memories[Len(memories)].text = arg_q
  /\ Len(result) >= 1

\* C8: the returned list is non-increasing in the reported similarity.
C8_SimilarityOrdering ==
  IsRetrieve =>
    \A i, j \in 1..Len(result) :
      i < j => result[i].similarity >= result[j].similarity

\* at least two results of different similarity
C8_Witness ==
  /\ IsRetrieve
  /\ Len(result) >= 2
  /\ result[1].similarity > result[Len(result)].similarity

Distances == (0..MaxDist) \cup {HugeDist}

InitSimilarity ==
  /\ InitStore /\ InitHist /\ InitConc /\ InitAgent /\ InitAlias
  /\ ui = "none"
  /\ dist \in Distances
  /\ sim = NoIdx

\* lines 132 and 136 applied to the distance
ApplySimilarity ==
  /\ sim = NoIdx
  /\ sim' = Similarity(dist)
  /\ UNCHANGED <<storeVars, clock, tieBreak, histVars, concVars, dist,
                 agentVars, agentHist, aliasVars>>

NextSimilarity == ApplySimilarity

SpecSim == InitSimilarity /\ [][NextSimilarity]_vars

\* C10 as stated: every reported similarity is strictly greater than 0 and at
\* most 1, for every distance d >= 0.
C10_Original == sim # NoIdx => (sim > 0 /\ sim <= 1000)

\* C10 amended: every reported similarity is at least 0 and at most 1; it is
\* strictly greater than 0 for every distance below 1999, and it is 0.0 for
\* every distance above 1999, where 1/(1+d) rounds to 0.000.
C10_SimilarityBounds ==
  sim # NoIdx =>
    /\ sim >= 0
    /\ sim <= 1000
    /\ dist < 1999 => sim > 0
    /\ dist > 1999 => sim = 0

\* a distance whose similarity was computed and rounded to 0.0
C10_Witness ==
  /\ sim = 0
  /\ dist > 1999
  /\ dist <= MaxDist

\* --------------------------------------------- calls running concurrently
\* Gradio runs the handlers on different threads (chat_fn on the event loop,
\* clear_memory and show_stats on worker threads) and SemanticMemory takes no
\* lock, so two calls on the store interleave statement by statement.  Each
\* action below is one statement (or a run of statements that touch only
\* locals) of the method named, executed by thread t.

Aligned == Len(memories) = Len(index) /\ Len(index) = total_entries

Active(t) == pc[t] # "idle"

\* the locals of all threads once thread t has entered the call `name`: the
\* locals of t are fresh, and every call already in progress is recorded as
\* overlapping the new one, and the new one as overlapping them
Entered(t, name, fields) ==
  [u \in Threads |->
     IF u = t
     THEN [fields EXCEPT
             !.op = name,
             !.startAligned = Aligned,
             !.during = { loc[v].op : v \in { w \in Threads \ {t} : Active(w) } }]
     ELSE IF Active(u)
     THEN [loc[u] EXCEPT !.during = @ \cup {name}]
     ELSE loc[u]]

\* a handler calls add_memory(text, role) on thread t
CallAddMemory(t, text, role) ==
  /\ pc[t] = "idle"
  /\ calls < MaxCalls
  /\ calls' = calls + 1
  /\ pc' = [pc EXCEPT ![t] = "a69"]
  /\ loc' = Entered(t, "add_memory", [NoCall EXCEPT !.text = text, !.role = role])
  /\ UNCHANGED <<storeVars, clock, tieBreak, histVars, simVars,
                 agentVars, agentHist, aliasVars>>

\* a handler calls reset() on thread t
CallReset(t) ==
  /\ pc[t] = "idle"
  /\ calls < MaxCalls
  /\ calls' = calls + 1
  /\ pc' = [pc EXCEPT ![t] = "r180"]
  /\ loc' = Entered(t, "reset", NoCall)
  /\ UNCHANGED <<storeVars, clock, tieBreak, histVars, simVars,
                 agentVars, agentHist, aliasVars>>

\* a handler calls retrieve_similar(q, k, ex) on thread t
CallRetrieveSimilar(t, q, k, ex) ==
  /\ pc[t] = "idle"
  /\ calls < MaxCalls
  /\ calls' = calls + 1
  /\ pc' = [pc EXCEPT ![t] = "s110"]
  /\ loc' = Entered(t, "retrieve_similar",
                    [NoCall EXCEPT !.q = q, !.k = k, !.ex = ex])
  /\ UNCHANGED <<storeVars, clock, tieBreak, histVars, simVars,
                 agentVars, agentHist, aliasVars>>

\* a handler calls get_stats() on thread t
CallGetStats(t) ==
  /\ pc[t] = "idle"
  /\ calls < MaxCalls
  /\ calls' = calls + 1
  /\ pc' = [pc EXCEPT ![t] = "g168"]
  /\ loc' = Entered(t, "get_stats", NoCall)
  /\ UNCHANGED <<storeVars, clock, tieBreak, histVars, simVars,
                 agentVars, agentHist, aliasVars>>

Goto(t, label) == pc' = [pc EXCEPT ![t] = label]

\* add_memory lines 69-82: the blank check, the entry with its timestamp and
\* the embedding; only locals and the wall clock are touched
AddCreateEntry(t) ==
  /\ pc[t] = "a69"
  /\ IF Strip(loc[t].text) = <<>>
     THEN /\ Goto(t, "idle")
          /\ UNCHANGED <<loc, clock>>
     ELSE /\ clock < MaxClock
          /\ clock' = clock + 1
          /\ loc' = [loc EXCEPT ![t].ts = clock + 1]
          /\ Goto(t, "a85")
  /\ UNCHANGED <<storeVars, tieBreak, histVars, calls, simVars,
                 agentVars, agentHist, aliasVars>>

\* add_memory line 85: self.index.add(embedding_normalized)
AddIndexAdd(t) ==
  /\ pc[t] = "a85"
  /\ index' = IndexAdd(index, Encode(loc[t].text))
  /\ Goto(t, "a88")
  /\ UNCHANGED <<memories, total_entries, embedding_dim, clock, tieBreak,
                 histVars, loc, calls, simVars,
                 agentVars, agentHist, aliasVars>>

\* add_memory line 88: self.memories.append(entry)
AddAppend(t) ==
  /\ pc[t] = "a88"
  /\ memories' = Append(memories, MemoryEntry(loc[t].text, loc[t].role, loc[t].ts))
  /\ Goto(t, "a89r")
  /\ UNCHANGED <<index, total_entries, embedding_dim, clock, tieBreak,
                 histVars, loc, calls, simVars,
                 agentVars, agentHist, aliasVars>>

\* add_memory line 89, self.total_entries += 1: the load
AddLoadTotal(t) ==
  /\ pc[t] = "a89r"
  /\ loc' = [loc EXCEPT ![t].tmp = total_entries]
  /\ Goto(t, "a89w")
  /\ UNCHANGED <<storeVars, clock, tieBreak, histVars, calls, simVars,
                 agentVars, agentHist, aliasVars>>

\* add_memory line 89, self.total_entries += 1: the store
AddStoreTotal(t) ==
  /\ pc[t] = "a89w"
  /\ total_entries' = loc[t].tmp + 1
  /\ Goto(t, "idle")
  /\ UNCHANGED <<memories, index, embedding_dim, clock, tieBreak, histVars,
                 loc, calls, simVars,
                 agentVars, agentHist, aliasVars>>

\* reset line 180: self.index = faiss.IndexFlatL2(self.embedding_dim)
ResetIndex(t) ==
  /\ pc[t] = "r180"
  /\ index' = <<>>
  /\ Goto(t, "r181")
  /\ UNCHANGED <<memories, total_entries, embedding_dim, clock, tieBreak,
                 histVars, loc, calls, simVars,
                 agentVars, agentHist, aliasVars>>

\* reset line 181: self.memories.clear()
ResetMemories(t) ==
  /\ pc[t] = "r181"
  /\ memories' = <<>>
  /\ Goto(t, "r182")
  /\ UNCHANGED <<index, total_entries, embedding_dim, clock, tieBreak,
                 histVars, loc, calls, simVars,
                 agentVars, agentHist, aliasVars>>

\* reset line 182: self.total_entries = 0
ResetTotal(t) ==
  /\ pc[t] = "r182"
  /\ total_entries' = 0
  /\ Goto(t, "idle")
  /\ UNCHANGED <<memories, index, embedding_dim, clock, tieBreak, histVars,
                 loc, calls, simVars,
                 agentVars, agentHist, aliasVars>>

\* retrieve_similar lines 110-111: if self.total_entries == 0: return []
RetrieveCheckEmpty(t) ==
  /\ pc[t] = "s110"
  /\ IF IsEmptyStore(total_entries)
     THEN /\ loc' = [loc EXCEPT ![t].ret = <<>>]
          /\ Goto(t, "idle")
     ELSE /\ UNCHANGED loc
          /\ Goto(t, "s118")
  /\ UNCHANGED <<storeVars, clock, tieBreak, histVars, calls, simVars,
                 agentVars, agentHist, aliasVars>>

\* retrieve_similar lines 114-118: the query embedding (local) and search_k,
\* which loads self.total_entries a second time
RetrieveSearchK(t) ==
  /\ pc[t] = "s118"
  /\ loc' = [loc EXCEPT
               ![t].search_k = SearchK(loc[t].k, loc[t].ex, total_entries),
               ![t].seenTotal = total_entries]
  /\ Goto(t, "s119")
  /\ UNCHANGED <<storeVars, clock, tieBreak, histVars, calls, simVars,
                 agentVars, agentHist, aliasVars>>

\* retrieve_similar line 119: self.index.search(query_embedding, search_k);
\* the index refuses k = 0
RetrieveSearch(t) ==
  /\ pc[t] = "s119"
  /\ IF loc[t].search_k <= 0
     THEN /\ loc' = [loc EXCEPT ![t].raised = TRUE, ![t].seenN = Len(index)]
          /\ Goto(t, "idle")
     ELSE /\ loc' = [loc EXCEPT
                       ![t].res = Search(index, tieBreak, Encode(loc[t].q),
                                         loc[t].search_k),
                       ![t].seenN = Len(index),
                       ![t].i = 1,
                       ![t].acc = <<>>]
          /\ Goto(t, "s124")
  /\ UNCHANGED <<storeVars, clock, tieBreak, histVars, calls, simVars,
                 agentVars, agentHist, aliasVars>>

\* retrieve_similar lines 123-124: the next hit of the loop, if any, and its
\* range check against len(self.memories)
RetrieveRangeCheck(t) ==
  /\ pc[t] = "s124"
  /\ IF loc[t].i > Len(loc[t].res)
     THEN /\ UNCHANGED loc
          /\ Goto(t, "s145")
     ELSE IF InRange(loc[t].res[loc[t].i], memories)
     THEN /\ loc' = [loc EXCEPT ![t].seenLen = Len(memories)]
          /\ Goto(t, "s125")
     ELSE /\ loc' = [loc EXCEPT ![t].i = @ + 1, ![t].seenLen = Len(memories)]
          /\ Goto(t, "s124")
  /\ UNCHANGED <<storeVars, clock, tieBreak, histVars, calls, simVars,
                 agentVars, agentHist, aliasVars>>

\* retrieve_similar lines 125-143: self.memories[idx] and the rest of the
\* loop body
RetrieveLoopBody(t) ==
  /\ pc[t] = "s125"
  /\ LET s == LoopBody(loc[t].res[loc[t].i], memories, loc[t].q, loc[t].k,
                       loc[t].ex, loc[t].acc)
     IN  IF s.raised
         THEN /\ loc' = [loc EXCEPT ![t].raised = TRUE]
              /\ Goto(t, "idle")
         ELSE /\ loc' = [loc EXCEPT ![t].acc = s.acc, ![t].i = @ + 1]
              /\ Goto(t, IF s.brk THEN "s145" ELSE "s124")
  /\ UNCHANGED <<storeVars, clock, tieBreak, histVars, calls, simVars,
                 agentVars, agentHist, aliasVars>>

\* retrieve_similar line 145: return sorted(...)
RetrieveReturn(t) ==
  /\ pc[t] = "s145"
  /\ loc' = [loc EXCEPT ![t].ret = SortedDesc(loc[t].acc)]
  /\ Goto(t, "idle")
  /\ UNCHANGED <<storeVars, clock, tieBreak, histVars, calls, simVars,
                 agentVars, agentHist, aliasVars>>

\* get_stats lines 167-168: latest_timestamp = None; if self.memories
StatsCheckMemories(t) ==
  /\ pc[t] = "g168"
  /\ loc' = [loc EXCEPT ![t].seenLen = Len(memories)]
  /\ Goto(t, IF memories # <<>> THEN "g169" ELSE "g172")
  /\ UNCHANGED <<storeVars, clock, tieBreak, histVars, calls, simVars,
                 agentVars, agentHist, aliasVars>>

\* get_stats line 169: latest_timestamp = self.memories[-1].timestamp
StatsLatest(t) ==
  /\ pc[t] = "g169"
  /\ IF memories = <<>>
     THEN /\ loc' = [loc EXCEPT ![t].raised = TRUE]
          /\ Goto(t, "idle")
     ELSE /\ loc' = [loc EXCEPT ![t].latest = memories[Len(memories)].timestamp]
          /\ Goto(t, "g172")
  /\ UNCHANGED <<storeVars, clock, tieBreak, histVars, calls, simVars,
                 agentVars, agentHist, aliasVars>>

\* get_stats lines 171-176: the dictionary, which loads self.total_entries
StatsReturn(t) ==
  /\ pc[t] = "g172"
  /\ loc' = [loc EXCEPT ![t].retTotal = total_entries,
                        ![t].seenTotal = total_entries]
  /\ Goto(t, "idle")
  /\ UNCHANGED <<storeVars, clock, tieBreak, histVars, calls, simVars,
                 agentVars, agentHist, aliasVars>>

NextConc ==
  \/ \E t \in Threads, text \in ConcTexts : CallAddMemory(t, text, "user")
  \/ \E t \in Threads : CallReset(t)
  \/ \E t \in Threads, ex \in BOOLEAN :
       CallRetrieveSimilar(t, <<"a">>, DefaultTopK, ex)
  \/ \E t \in Threads : CallGetStats(t)
  \/ \E t \in Threads : AddCreateEntry(t)
  \/ \E t \in Threads : AddIndexAdd(t)
  \/ \E t \in Threads : AddAppend(t)
  \/ \E t \in Threads : AddLoadTotal(t)
  \/ \E t \in Threads : AddStoreTotal(t)
  \/ \E t \in Threads : ResetIndex(t)
  \/ \E t \in Threads : ResetMemories(t)
  \/ \E t \in Threads : ResetTotal(t)
  \/ \E t \in Threads : RetrieveCheckEmpty(t)
  \/ \E t \in Threads : RetrieveSearchK(t)
  \/ \E t \in Threads : RetrieveSearch(t)
  \/ \E t \in Threads : RetrieveRangeCheck(t)
  \/ \E t \in Threads : RetrieveLoopBody(t)
  \/ \E t \in Threads : RetrieveReturn(t)
  \/ \E t \in Threads : StatsCheckMemories(t)
  \/ \E t \in Threads : StatsLatest(t)
  \/ \E t \in Threads : StatsReturn(t)

SpecConc == Init /\ [][NextConc]_vars

\* thread t has finished a call of the method `name` that started on an
\* aligned store and overlapped no call other than those named in `others`
Finished(t, name, others) ==
  /\ pc[t] = "idle"
  /\ loc[t].op = name
  /\ loc[t].startAligned
  /\ loc[t].during \subseteq others

\* what a finished retrieve_similar read of the counter, the index and the
\* entry list belongs to one state of the store
ConsistentReads(t) ==
  /\ loc[t].seenN # NoIdx => loc[t].seenN = loc[t].seenTotal
  /\ loc[t].seenLen # NoIdx => loc[t].seenLen = loc[t].seenN

\* C3: a retrieve_similar that runs concurrently with add_memory sees the
\* store before the add or after it: the number of vectors it searched, the
\* number of entries it indexed into and the counter it read are equal.
C3_AddAtomic ==
  \A t \in Threads :
    Finished(t, "retrieve_similar", {"add_memory"})
      => (~loc[t].raised /\ ConsistentReads(t))

\* C4: a retrieve_similar or get_stats that runs concurrently with reset sees
\* the full store or the empty store: retrieve_similar reads one state and
\* does not raise, and get_stats reports no timestamp exactly when it reports
\* zero entries.
C4_ResetAtomic ==
  \A t \in Threads :
    /\ Finished(t, "retrieve_similar", {"reset"})
         => (~loc[t].raised /\ ConsistentReads(t))
    /\ Finished(t, "get_stats", {"reset"})
         => /\ ~loc[t].raised
            /\ (loc[t].latest = NoIdx) <=> (loc[t].retTotal = 0)

\* ------------------------------------------------ the life of the store
IsBlank(text) == Strip(text) = <<>>

\* C11: after every reset, the second of two in a row included, the store
\* has no entry, an empty index and total_entries 0; an add_memory of a
\* non-blank text that follows two resets in a row does not raise and
\* leaves exactly its own entry, with total_entries 1.
C11_ResetIdempotent ==
  /\ op = "reset" =>
       (total_entries = 0 /\ memories = <<>> /\ index = <<>> /\ ~raised)
  /\ (op = "add_memory" /\ resets = 2 /\ ~IsBlank(arg_text)) =>
       /\ ~raised
       /\ total_entries = 1
       /\ Len(memories) = 1
       /\ Len(index) = 1
       /\ memories[1].text = arg_text

\* a populated store reset twice in a row, then one entry added
C11_Witness ==
  /\ op = "add_memory"
  /\ resets = 2
  /\ ~IsBlank(arg_text)
  /\ clock >= 2
  /\ total_entries = 1

\* C12: total_entries is a natural number (0: Empty, n >= 1: Populated(n));
\* every add_memory of a non-blank text takes it from n to n + 1, every
\* reset takes it to 0, and retrieve_similar, get_stats and
\* get_recent_context leave it as it was.
C12_CountStateMachine ==
  [][ /\ total_entries' \in Nat
      /\ (op' = "add_memory" /\ ~IsBlank(arg_text'))
           => (~raised' /\ total_entries' = total_entries + 1)
      /\ op' = "reset" => total_entries' = 0
      /\ op' \in {"retrieve_similar", "get_stats", "get_recent_context"}
           => total_entries' = total_entries ]_vars

\* Populated(2) reached a second time, after a reset, then read
C12_Witness ==
  /\ op = "get_recent_context"
  /\ total_entries = 2
  /\ lastMut = "add"
  /\ clock > total_entries

\* C13: a call other than reset leaves every entry already stored where it
\* was, with its text, role and timestamp, so the sequence before the call
\* is a prefix of the sequence after it; an add_memory of a non-blank text
\* puts exactly one entry, carrying that text, after them.
C13_AppendOnly ==
  [][ /\ op' # "reset" =>
           /\ Len(memories') >= Len(memories)
           /\ SubSeq(memories', 1, Len(memories)) = memories
      /\ (op' = "add_memory" /\ ~IsBlank(arg_text')) =>
           /\ Len(memories') = Len(memories) + 1
           /\ memories'[Len(memories')].text = arg_text' ]_vars

\* a third entry appended behind two that stayed in place
C13_Witness ==
  /\ op = "add_memory"
  /\ ~IsBlank(arg_text)
  /\ Len(memories) = 3
  /\ memories[3].text = arg_text
  /\ memories[1].timestamp < memories[2].timestamp

\* C14: after any run of add_memory and reset calls, get_stats reports as
\* total_entries the number of entries stored, and as latest_timestamp
\* nothing (NoIdx) exactly when no entry is stored, and otherwise the
\* timestamp of the entry added last, which is the last time the clock gave.
C14_Statistics ==
  op = "get_stats" =>
    /\ stats.total_entries = Len(memories)
    /\ (stats.latest_timestamp = NoIdx) <=> (memories = <<>>)
    /\ memories # <<>> =>
         /\ stats.latest_timestamp = memories[Len(memories)].timestamp
         /\ stats.latest_timestamp = clock
         /\ \A i \in 1..Len(memories) :
              memories[i].timestamp <= stats.latest_timestamp

\* statistics of two entries added after a reset
C14_Witness ==
  /\ op = "get_stats"
  /\ lastMut = "add"
  /\ Len(memories) = 2
  /\ clock = 3
  /\ stats.total_entries = 2
  /\ stats.latest_timestamp = 3

\* C19: an add_memory whose text is empty or only whitespace returns
\* without raising and leaves the entries, the index and total_entries as
\* they were.
C19_BlankAddNoOp ==
  [][ (op' = "add_memory" /\ IsBlank(arg_text'))
        => (~raised' /\ UNCHANGED <<memories, index, total_entries>>) ]_vars

\* a whitespace-only text offered to a store of two entries
C19_Witness ==
  /\ op = "add_memory"
  /\ arg_text = <<" ">>
  /\ Len(memories) = 2
  /\ Len(index) = 2
  /\ total_entries = 2

\* ------------------------- blank queries, repeated calls, failing backends
\* The store as in Spec, with a caller that also sends blank queries, sends
\* the same query twice or passes a threshold, and with an embedder and an
\* index that may raise.  retrieve_similar is called with the default top_k.
BlankQueries == { <<>>, <<" ">> }
EdgeQueries == BlankQueries \cup { <<"c">> }
\* where add_memory can fail: model.encode (line 81), index.add (line 85)
AddFaults == { "encode", "index_add" }
\* where retrieve_similar can fail: model.encode (113), index.search (119)
QueryFaults == { "encode", "search" }
\* thresholds a caller passes, in thousandths
Thresholds == { 0, 500, 1000 }

\* the repeated call answered by an index that orders equal distances the
\* other way round
RetrieveSimilarAgain_OtherTies ==
  /\ op = "retrieve_similar"
  /\ fault = "none"
  /\ arg_th = NoIdx
  /\ LET other == IF tieBreak = "lowId" THEN "highId" ELSE "lowId"
         r == RetrieveResult(memories, index, total_entries, other,
                             arg_q, arg_k, arg_ex)
     IN  /\ result' = r.results
         /\ raised' = r.raised
  /\ again' = TRUE
  /\ op' = "retrieve_similar"
  /\ stats' = NoStats
  /\ recent' = <<>>
  /\ resets' = 0
  /\ RetrieveFrame
  /\ UNCHANGED <<arg_q, arg_k, arg_ex, arg_th, arg_text, arg_limit, fault,
                 clock, tieBreak, lastMut, concVars, simVars,
                 agentVars, agentHist, aliasVars>>

\* retrieve_similar called once more with the arguments of the call before
RetrieveSimilarAgain ==
  /\ op = "retrieve_similar"
  /\ fault = "none"
  /\ arg_th = NoIdx
  /\ LET r == RetrieveResult(memories, index, total_entries, tieBreak,
                             arg_q, arg_k, arg_ex)
     IN  /\ result' = r.results
         /\ raised' = r.raised
  /\ again' = TRUE
  /\ op' = "retrieve_similar"
  /\ stats' = NoStats
  /\ recent' = <<>>
  /\ resets' = 0
  /\ RetrieveFrame
  /\ UNCHANGED <<arg_q, arg_k, arg_ex, arg_th, arg_text, arg_limit, fault,
                 clock, tieBreak, lastMut, concVars, simVars,
                 agentVars, agentHist, aliasVars>>

\* the record of a call that ended by raising
Raised(name, q, k, ex, th, text, f) ==
  /\ op' = name
  /\ arg_q' = q
  /\ arg_k' = k
  /\ arg_ex' = ex
  /\ arg_th' = th
  /\ arg_text' = text
  /\ arg_limit' = 0
  /\ result' = <<>>
  /\ stats' = NoStats
  /\ recent' = <<>>
  /\ raised' = TRUE
  /\ fault' = f
  /\ resets' = 0
  /\ again' = FALSE

\* add_memory appending the entry (line 88) before the index insertion that
\* raises (line 85)
AddMemoryFails_EntryKept(text, role, f) ==
  /\ ~IsBlank(text)
  /\ Len(memories) < MaxEntries
  /\ Raised("add_memory", <<>>, 0, FALSE, NoIdx, text, f)
  /\ memories' = IF f = "index_add"
                 THEN Append(memories, MemoryEntry(text, role, clock))
                 ELSE memories
  /\ UNCHANGED <<index, total_entries, embedding_dim, clock, tieBreak, lastMut,
                 concVars, simVars, agentVars, agentHist, aliasVars>>

\* add_memory(text, role) when model.encode (line 81) or index.add (line 85)
\* raises: no statement of lines 60-91 catches it, and nothing has been
\* assigned by then
AddMemoryFails(text, role, f) ==
  /\ ~IsBlank(text)
  /\ Raised("add_memory", <<>>, 0, FALSE, NoIdx, text, f)
  /\ UNCHANGED <<storeVars, clock, tieBreak, lastMut, concVars, simVars,
                 agentVars, agentHist, aliasVars>>

\* ThreadAgent.process_message(text) when the add_memory of line 94 fails:
\* lines 87-118 of agent.py catch nothing, so the turn ends by raising (with
\* the embedder down and a populated store, already at the retrieve_similar
\* of line 91)
ProcessMessageFails(text, f) ==
  /\ ~IsBlank(text)
  /\ Raised("process_message", <<>>, 0, FALSE, NoIdx, text, f)
  /\ UNCHANGED <<storeVars, clock, tieBreak, lastMut, concVars, simVars,
                 agentVars, agentHist, aliasVars>>

\* retrieve_similar(q, k, ex) when model.encode (line 113) or index.search
\* (line 119) raises: line 110 has found the store populated, and no
\* statement of lines 93-145 catches it
RetrieveSimilarFails(q, k, ex, f) ==
  /\ ~IsEmptyStore(total_entries)
  /\ Raised("retrieve_similar", q, k, ex, NoIdx, <<>>, f)
  /\ RetrieveFrame
  /\ UNCHANGED <<clock, tieBreak, lastMut, concVars, simVars,
                 agentVars, agentHist, aliasVars>>

\* retrieve_similar(q, top_k=k, threshold=th): the signature of lines 93-98
\* has no such parameter, so Python raises TypeError before line 110
RetrieveSimilarThreshold(q, k, th) ==
  /\ Raised("retrieve_similar", q, k, TRUE, th, <<>>, "none")
  /\ RetrieveFrame
  /\ UNCHANGED <<clock, tieBreak, lastMut, concVars, simVars,
                 agentVars, agentHist, aliasVars>>

NextEdge ==
  \/ \E in \in AddInputs : AddMemoryBlank(in[1], in[2])
  \/ \E in \in AddInputs : AddMemory(in[1], in[2])
  \/ Reset
  \/ \E q \in EdgeQueries, ex \in BOOLEAN : RetrieveSimilar(q, DefaultTopK, ex)
  \/ RetrieveSimilarAgain
  \/ \E in \in AddInputs, f \in AddFaults : AddMemoryFails(in[1], in[2], f)
  \/ \E in \in AddInputs, f \in AddFaults : ProcessMessageFails(in[1], f)
  \/ \E q \in EdgeQueries, ex \in BOOLEAN, f \in QueryFaults :
       RetrieveSimilarFails(q, DefaultTopK, ex, f)
  \/ \E q \in EdgeQueries, th \in Thresholds :
       RetrieveSimilarThreshold(q, DefaultTopK, th)

SpecEdge == Init /\ [][NextEdge]_vars

\* a retrieve_similar call without threshold and without a failing backend
IsPlainRetrieve == IsRetrieve /\ fault = "none" /\ arg_th = NoIdx

\* C15: retrieve_similar with an empty or whitespace-only query returns the
\* empty sequence and raises nothing, whatever the store holds.
C15_BlankQueryEmpty ==
  (IsPlainRetrieve /\ IsBlank(arg_q)) => (result = <<>> /\ ~raised)

\* C16: when model.encode or index.add fails inside add_memory, the call -
\* and the process_message turn that made it - ends without raising.
C16_AddFailureContained ==
  (op \in {"add_memory", "process_message"} /\ fault \in AddFaults) => ~raised

\* C17: when model.encode or index.search fails inside retrieve_similar,
\* the call raises nothing and returns the empty sequence.
C17_QueryFailureContained ==
  (IsRetrieve /\ fault \in QueryFaults) => (~raised /\ result = <<>>)

\* C18: a retrieve_similar call given a minimum similarity threshold raises
\* nothing and returns no entry whose similarity is below the threshold.
C18_ThresholdFiltering ==
  (IsRetrieve /\ arg_th # NoIdx) =>
    /\ ~raised
    /\ \A i \in 1..Len(result) : result[i].similarity >= arg_th

ReturnedIdx == { result[i].idx : i \in 1..Len(result) }

\* distance between the vectors of two texts
TextDist(t, u) == L2Sqr(Encode(t), Encode(u))

\* C22: every entry retrieve_similar returns is at least as close to the
\* query as every stored entry that it neither returned nor excluded as an
\* exact match of the query.
C22_NearestFirst ==
  IsRetrieve =>
    \A i \in 1..Len(result), j \in 1..Len(memories) :
      ( /\ (j - 1) \notin ReturnedIdx
        /\ ~(arg_ex /\ IsExactMatch(memories[j].text, arg_q)) )
      => TextDist(arg_q, result[i].text) <= TextDist(arg_q, memories[j].text)

\* one entry returned while a farther one, not an exact match, stays behind
C22_Witness ==
  /\ IsRetrieve
  /\ Len(result) = 1
  /\ \E j \in 1..Len(memories) :
       /\ (j - 1) \notin ReturnedIdx
       /\ ~IsExactMatch(memories[j].text, arg_q)
       /\ TextDist(arg_q, result[1].text) < TextDist(arg_q, memories[j].text)

\* -------------------------------------------------------------- the agent
\* ThreadAgent of src/agent.py on top of the store, run by one of the two
\* entry points.  A text is a sequence of words here (a blank is the word
\* " "); a keyword is found in a text when it is one of its words.
UIs == { "main", "app" }
\* the messages process_message is called with
AgentMessages == { <<" ">>, <<"a">>, <<"plan">> }
\* the keys typed into the API key field
KeyInputs == { <<" ">>, <<"k1">>, <<"k2", " ">> }
\* what self.groq_client.chat.completions.create does (agent.py line 154)
LlmOutcomes == { "text", "blank", "raises" }
\* response.choices[0].message.content
LlmContent(out) == IF out = "text" THEN <<"b">> ELSE <<" ">>

\* keyword lists of _update_creative_intent (agent.py lines 274-290)
IntentKeywords ==
  [writing_projects |->
     {"write", "story", "novel", "script", "poem", "blog", "article"},
   planning_activities |->
     {"plan", "strategy", "goal", "roadmap", "timeline", "project"},
   learning_queries |-> {"learn", "understand", "explain", "how", "what", "why"},
   problem_solving |->
     {"problem", "issue", "challenge", "solve", "fix", "debug"}]

\* any(keyword in message_lower for keyword in keywords)
HasKeyword(message, keywords) ==
  \E i \in 1..Len(message) : message[i] \in keywords

\* _update_creative_intent(message, role): agent.py lines 263-291
UpdateCreativeIntent(intent, message) ==
  [k \in DOMAIN intent |->
     IF HasKeyword(message, IntentKeywords[k]) THEN intent[k] + 1 ELSE intent[k]]

\* _generate_proactive_suggestion: agent.py lines 293-326; <<>> for None
ProactiveSuggestion(user_message, intent) ==
  IF HasKeyword(user_message, {"story", "novel", "script"}) THEN <<"characters">>
  ELSE IF HasKeyword(user_message, {"video", "youtube", "content"})
  THEN <<"calendar">>
  ELSE IF HasKeyword(user_message, {"learn", "study", "understand"})
  THEN <<"roadmap">>
  ELSE IF HasKeyword(user_message, {"plan", "project", "goal"}) THEN <<"steps">>
  ELSE IF intent.writing_projects > 2 THEN <<"direction">>
  ELSE <<>>

\* the text_preview of every similar memory, one after the other
RECURSIVE Previews(_)
Previews(similar) ==
  IF similar = <<>> THEN <<>>
  ELSE Head(similar).text \o Previews(Tail(similar))

\* _generate_fallback_response: agent.py lines 222-260: a fixed text around
\* the user message and the previews of the similar memories
FallbackResponse(user_message, similar) ==
  <<"Status:">> \o user_message \o Previews(similar)

\* _generate_response without the except branch of lines 172-174
GenerateResponse_NoFallback(user_message, similar, out, intent) ==
  LET suggestion == ProactiveSuggestion(user_message, intent)
  IN  IF suggestion # <<>>
      THEN LlmContent(out) \o <<" ">> \o suggestion
      ELSE LlmContent(out)

\* _generate_response: agent.py lines 120-174; `out` is what the LLM call does
GenerateResponse(user_message, similar, out, intent) ==
  IF out = "raises" THEN FallbackResponse(user_message, similar)
  ELSE LET suggestion == ProactiveSuggestion(user_message, intent)
       IN  IF suggestion # <<>>
           THEN LlmContent(out) \o <<" ">> \o suggestion
           ELSE LlmContent(out)

\* _initialize_groq_client: agent.py lines 34-71; the client is written as
\* the key it was built from, `create` says whether groq.Groq(...) succeeds
InitializeGroqClient(key, create) ==
  IF Strip(key) = <<>> THEN NoKey
  ELSE IF create THEN Strip(key) ELSE NoKey

\* _get_memory_panel(similar): agent.py lines 328-375, the values it prints
PanelOf(st, intent, similar) ==
  [total_entries |-> st.total_entries,
   latest_timestamp |-> st.latest_timestamp,
   creative_intent |-> intent,
   similar_memories |-> similar]

\* process_message(user_message) with a blank message: agent.py lines 87-88
ProcessMessageBlank(user_message) ==
  /\ IsBlank(user_message)
  /\ Called("process_message")
  /\ arg_text' = user_message
  /\ resets' = 0
  /\ response' = <<"Please enter a message.">>
  /\ similar_memories' = <<>>
  /\ memory_panel' = PanelOf(StatsOf(memories, total_entries, embedding_dim),
                             creative_intent, <<>>)
  /\ llm' = "none"
  /\ before' = Len(memories)
  /\ status' = <<>>
  /\ UNCHANGED <<storeVars, clock, tieBreak, lastMut, concVars, simVars,
                 agentVars, turns, ui, aliasVars>>

\* lines 94-116 storing the response entry before the user entry
TurnStored_AssistantFirst(user_message, similar, client, out, intent1, resp) ==
  LET stored == ~IsBlank(resp)
      mem1 == Append(memories, MemoryEntry(user_message, "user", clock + 1))
      ix1 == IndexAdd(index, Encode(user_message))
      mem2 == IF stored
              THEN memories \o <<MemoryEntry(resp, "assistant", clock + 1)>>
                     \o <<MemoryEntry(user_message, "user", clock + 2)>>
              ELSE mem1
      ix2 == IF stored
             THEN IndexAdd(IndexAdd(index, Encode(resp)), Encode(user_message))
             ELSE ix1
      tot2 == total_entries + 1 + (IF stored THEN 1 ELSE 0)
      intent2 == UpdateCreativeIntent(intent1, resp)
  IN  [raised |-> similar.raised, similar |-> similar.results,
       memories |-> mem2, index |-> ix2, total_entries |-> tot2,
       clock |-> clock + 1 + (IF stored THEN 1 ELSE 0),
       groq_client |-> client, creative_intent |-> intent2,
       response |-> resp,
       llm |-> IF client = NoKey THEN "no_client" ELSE out,
       panel |-> PanelOf(StatsOf(mem2, tot2, embedding_dim), intent2,
                         similar.results)]

\* what a turn leaves behind once its lookup, its client and its response
\* are known: the user entry (line 94), the response entry (line 110, which
\* add_memory drops if blank), the intent counts (lines 97 and 113) and the
\* panel (line 116)
TurnStored(user_message, similar, client, out, intent1, resp) ==
  LET stored == ~IsBlank(resp)
      mem1 == Append(memories, MemoryEntry(user_message, "user", clock + 1))
      ix1 == IndexAdd(index, Encode(user_message))
      mem2 == IF stored
              THEN Append(mem1, MemoryEntry(resp, "assistant", clock + 2))
              ELSE mem1
      ix2 == IF stored THEN IndexAdd(ix1, Encode(resp)) ELSE ix1
      tot2 == total_entries + 1 + (IF stored THEN 1 ELSE 0)
      intent2 == UpdateCreativeIntent(intent1, resp)
  IN  [raised |-> similar.raised, similar |-> similar.results,
       memories |-> mem2, index |-> ix2, total_entries |-> tot2,
       clock |-> clock + 1 + (IF stored THEN 1 ELSE 0),
       groq_client |-> client, creative_intent |-> intent2,
       response |-> resp,
       llm |-> IF client = NoKey THEN "no_client" ELSE out,
       panel |-> PanelOf(StatsOf(mem2, tot2, embedding_dim), intent2,
                         similar.results)]

\* lines 100-107: the fallback without a client, else _generate_response
TurnResponse(user_message, similar, client, out, intent1) ==
  TurnStored(user_message, similar, client, out, intent1,
             IF client = NoKey
             THEN FallbackResponse(user_message, similar.results)
             ELSE GenerateResponse(user_message, similar.results, out, intent1))

\* process_message(user_message) with a non-blank message, as a function of
\* the state it starts in: agent.py lines 90-118.  `create` says whether
\* groq.Groq(...) succeeds if it is tried, `out` what the LLM call does if
\* it is made.  The lookup of line 91 reads the store as the turn finds it.
TurnOf(user_message, create, out) ==
  TurnResponse(user_message,
               RetrieveResult(memories, index, total_entries, tieBreak,
                              user_message, DefaultTopK, TRUE),
               IF groq_client = NoKey
               THEN InitializeGroqClient(env_key, create)
               ELSE groq_client,
               out,
               UpdateCreativeIntent(creative_intent, user_message))

\* the assignments of a turn whose outcome is t
TurnApplied(t) ==
  /\ ~t.raised      \* top_k = 3 on the store of a sequential run
  /\ memories' = t.memories
  /\ index' = t.index
  /\ total_entries' = t.total_entries
  /\ clock' = t.clock
  /\ groq_client' = t.groq_client
  /\ creative_intent' = t.creative_intent
  /\ response' = t.response
  /\ similar_memories' = t.similar
  /\ memory_panel' = t.panel
  /\ llm' = t.llm

ProcessMessage(user_message, create, out) ==
  /\ ~IsBlank(user_message)
  /\ turns < MaxTurns
  /\ TurnApplied(TurnOf(user_message, create, out))
  /\ Called("process_message")
  /\ arg_text' = user_message
  /\ resets' = 0
  /\ lastMut' = "add"
  /\ before' = Len(memories)
  /\ status' = <<>>
  /\ turns' = turns + 1
  /\ UNCHANGED <<embedding_dim, tieBreak, concVars, simVars, env_key,
                 conversation_context, ui, aliasVars>>

\* clear_memory without line 390, self.creative_intent.clear()
ClearMemory_KeepsIntent ==
  /\ index' = <<>>
  /\ memories' = <<>>
  /\ total_entries' = 0
  /\ creative_intent' = creative_intent
  /\ conversation_context' = <<>>
  /\ memory_panel' = PanelOf(StatsOf(memories', total_entries', embedding_dim),
                             creative_intent', <<>>)
  /\ Called("clear_memory")
  /\ arg_text' = <<>>
  /\ resets' = ResetsAfterReset
  /\ lastMut' = "reset"
  /\ response' = <<>>
  /\ similar_memories' = <<>>
  /\ llm' = "none"
  /\ before' = Len(memories)
  /\ status' = <<>>
  /\ UNCHANGED <<embedding_dim, clock, tieBreak, concVars, simVars,
                 groq_client, env_key, turns, ui, aliasVars>>

\* ThreadAgent.clear_memory(): agent.py lines 387-392
ClearMemory ==
  /\ index' = <<>>
  /\ memories' = <<>>
  /\ total_entries' = 0
  /\ creative_intent' = NoIntent
  /\ conversation_context' = <<>>
  /\ memory_panel' = PanelOf(StatsOf(memories', total_entries', embedding_dim),
                             creative_intent', <<>>)
  /\ Called("clear_memory")
  /\ arg_text' = <<>>
  /\ resets' = ResetsAfterReset
  /\ lastMut' = "reset"
  /\ response' = <<>>
  /\ similar_memories' = <<>>
  /\ llm' = "none"
  /\ before' = Len(memories)
  /\ status' = <<>>
  /\ UNCHANGED <<embedding_dim, clock, tieBreak, concVars, simVars,
                 groq_client, env_key, turns, ui, aliasVars>>

\* the status texts of save_groq_key, character by character: main.py lines
\* 28-35 ("... saved successfully") and app.py lines 32-38 ("**Success** ...")
StatusSaved(entry) ==
  IF entry = "main"
  THEN <<"s", "a", "v", "e", "d", " ",
         "s", "u", "c", "c", "e", "s", "s", "f", "u", "l", "l", "y">>
  ELSE <<"*", "*", "S", "u", "c", "c", "e", "s", "s", "*", "*", " ",
         "s", "a", "v", "e", "d">>
StatusEmpty(entry) ==
  IF entry = "main"
  THEN <<"e", "m", "p", "t", "y">>
  ELSE <<"*", "*", "E", "r", "r", "o", "r", "*", "*", " ",
         "e", "m", "p", "t", "y">>

\* needle in hay, for Python strings
IsSubstring(needle, hay) ==
  \E i \in 0..(Len(hay) - Len(needle)) :
    SubSeq(hay, i + 1, i + Len(needle)) = needle

\* "Success" in status: main.py line 46, app.py line 68
SaysSuccess(st) == IsSubstring(<<"S", "u", "c", "c", "e", "s", "s">>, st)

\* the save handler of the entry point in use on the key typed in:
\* save_key_and_clear (main.py lines 44-48) or save_groq_key_and_clear
\* (app.py lines 55-75), each calling its save_groq_key first.  `create`
\* says whether groq.Groq(...) succeeds if reload_groq_client tries it.
SaveKey(api_key, create) ==
  /\ ui \in UIs
  /\ LET saved == ~IsBlank(api_key)
         st == IF saved THEN StatusSaved(ui) ELSE StatusEmpty(ui)
         key == IF saved THEN Strip(api_key) ELSE env_key
     IN  /\ env_key' = key
         /\ groq_client' = IF SaysSuccess(st)
                           THEN InitializeGroqClient(key, create)
                           ELSE groq_client
         /\ status' = IF ~SaysSuccess(st) THEN st
                       ELSE IF groq_client' # NoKey
                       THEN st \o <<" ", "r", "e", "l", "o", "a", "d", "e", "d">>
                       ELSE st \o <<" ", "f", "a", "i", "l", "e", "d">>
  /\ Called("save_key")
  /\ arg_text' = api_key
  /\ resets' = 0
  /\ response' = <<>>
  /\ similar_memories' = <<>>
  /\ memory_panel' = NoPanel
  /\ llm' = "none"
  /\ before' = Len(memories)
  /\ UNCHANGED <<storeVars, clock, tieBreak, lastMut, concVars, simVars,
                 creative_intent, conversation_context, turns, ui, aliasVars>>

InitAgentRun ==
  /\ InitStore /\ InitHist /\ InitConc /\ InitSim /\ InitAgent /\ InitAlias
  /\ ui \in UIs

NextAgent ==
  \/ \E m \in AgentMessages : ProcessMessageBlank(m)
  \/ \E m \in AgentMessages, create \in BOOLEAN, out \in LlmOutcomes :
       ProcessMessage(m, create, out)
  \/ ClearMemory
  \/ \E k \in KeyInputs, create \in BOOLEAN : SaveKey(k, create)

SpecAgent == InitAgentRun /\ [][NextAgent]_vars

\* C21: after ThreadAgent.clear_memory, whatever the state before, the store
\* has no entry, no vector and total_entries 0, creative_intent and
\* conversation_context are empty, and the panel returned reports 0 entries.
C21_AgentClear ==
  op = "clear_memory" =>
    /\ memories = <<>>
    /\ index = <<>>
    /\ total_entries = 0
    /\ creative_intent = NoIntent
    /\ conversation_context = <<>>
    /\ memory_panel.total_entries = 0
    /\ memory_panel.creative_intent = NoIntent

\* a clear after two full turns
C21_Witness ==
  /\ op = "clear_memory"
  /\ before = 4
  /\ turns = 2
  /\ memories = <<>>

IsTurn == op = "process_message" /\ ~IsBlank(arg_text) /\ ~raised

\* C23: after a process_message turn with a non-blank message, every similar
\* memory shown is an entry that was stored before the turn, the entry added
\* right after those is the user's message, and when the response is not
\* blank the turn added exactly two entries: the user's, then the
\* assistant's response, with a later timestamp.
C23_TurnOrdering ==
  IsTurn =>
    /\ \A i \in 1..Len(similar_memories) :
         similar_memories[i].idx >= 0 /\ similar_memories[i].idx < before
    /\ Len(memories) >= before + 1
    /\ memories[before + 1].role = "user"
    /\ memories[before + 1].text = arg_text
    /\ ~IsBlank(response) =>
         /\ Len(memories) = before + 2
         /\ total_entries = before + 2
         /\ memories[before + 2].role = "assistant"
         /\ memories[before + 2].text = response
         /\ memories[before + 1].timestamp < memories[before + 2].timestamp

\* a second turn that shows a memory of the first and stores both entries
C23_Witness ==
  /\ IsTurn
  /\ before = 2
  /\ similar_memories # <<>>
  /\ ~IsBlank(response)
  /\ Len(memories) = 4

\* C24: a turn that finds no Groq client after trying to build one, or whose
\* LLM call raises, raises nothing itself, returns the fallback response
\* built from the message and the similar memories, and stores that response
\* as the assistant entry that follows the user entry.
C24_LlmFailureFallback ==
  (IsTurn /\ llm \in {"no_client", "raises"}) =>
    /\ ~raised
    /\ response = FallbackResponse(arg_text, similar_memories)
    /\ (llm = "no_client") <=> (groq_client = NoKey)
    /\ Len(memories) = before + 2
    /\ memories[before + 2].role = "assistant"
    /\ memories[before + 2].text = response

\* a turn whose client exists and whose LLM call raises, after a turn that
\* had no client
C24_Witness ==
  /\ IsTurn
  /\ llm = "raises"
  /\ groq_client # NoKey
  /\ before = 2
  /\ memories[2].text = FallbackResponse(memories[1].text, <<>>)

\* an add_memory call that ended with model.encode or index.add raising
FailedAdd == op = "add_memory" /\ raised /\ fault \in AddFaults

\* C25: a step in which add_memory fails because the embedding or the index
\* insertion raises leaves the entries, the index and total_entries as they
\* were, and the three counts equal, each index position still holding the
\* vector of its entry.
C25_FailedAddUnchanged ==
  [][FailedAdd' =>
       /\ memories' = memories
       /\ index' = index
       /\ total_entries' = total_entries
       /\ Len(memories') = Len(index')
       /\ Len(index') = total_entries'
       /\ \A i \in 1..Len(memories') : index'[i] = Encode(memories'[i].text)]_vars

\* a failed index insertion on a store that holds two entries
C25_Witness ==
  /\ FailedAdd
  /\ fault = "index_add"
  /\ Len(memories) = 2
  /\ total_entries = 2

\* the stored entries whose text is not an exact match of the query
NonMatching(mems, q) ==
  { i \in 1..Len(mems) : ~IsExactMatch(mems[i].text, q) }

\* C26: a retrieve_similar call with exclude_current = True returns exactly
\* min(top_k, m) results, m being the number of stored entries whose text is
\* not an exact match of the query.
C26_CountUnderExclusion ==
  (IsRetrieve /\ arg_ex /\ ~raised) =>
    Len(result) = Min(arg_k, Cardinality(NonMatching(memories, arg_q)))

\* C28: get_recent_context(limit) on a store of n entries returns exactly the
\* last min(limit, n) entries, in insertion order, and never more than limit.
C28_RecentWindow ==
  op = "get_recent_context" =>
    LET n == Len(memories)
        m == Min(arg_limit, n)
    IN  /\ Len(recent) = m
        /\ Len(recent) <= arg_limit
        /\ \A i \in 1..m :
             /\ recent[i].content = memories[n - m + i].text
             /\ recent[i].role = memories[n - m + i].role

\* an add_memory on thread t and a reset on thread u that overlapped each
\* other and no other call, both started on an aligned store, both returned
AddAndResetDone(t, u) ==
  /\ t # u
  /\ \A v \in Threads : pc[v] = "idle"
  /\ Finished(t, "add_memory", {"reset"})
  /\ Finished(u, "reset", {"add_memory"})
  /\ "reset" \in loc[t].during
  /\ "add_memory" \in loc[u].during

\* C27: once an add_memory call and a reset call that interleaved statement
\* by statement have both finished, the number of entries, the number of
\* vectors in the index and total_entries are equal.
C27_AddResetInterleaved ==
  (\E t, u \in Threads : AddAndResetDone(t, u)) => Aligned

\* a save handler call that stored a non-empty key
KeySaved == op = "save_key" /\ ~IsBlank(arg_text)

\* C29: after the save handler has stored a non-empty key, the agent holds
\* no client or a client built from that key, and every later message that
\* reaches the LLM call does so with a client built from the key stored
\* last.
C29_KeyUpdateTakesEffect ==
  /\ KeySaved => (env_key = Strip(arg_text) /\ groq_client \in {NoKey, env_key})
  /\ (IsTurn /\ llm \in LlmOutcomes) => groq_client = env_key

\* ------------------------------------------- who can reach a stored entry
\* Dictionaries are objects: `heap` holds the metadata dictionaries made so
\* far, a reference is a position in it, and a dictionary is the set of its
\* keys.  The strings and the datetime of an entry cannot be changed in
\* place; its metadata dictionary can.

\* dictionaries alive at most in one run
MaxObjs == 3
\* no dictionary: metadata = None
NoRef == 0
\* what the caller passes as metadata: None, {} or a dictionary with a key
MetadataInputs == { "none", "empty", "filled" }
\* the key a caller writes into a dictionary it holds
MetaKeys == { "x" }
AliasTexts == { <<"a">>, <<"b">> }

\* the caller's heap once it has built the dictionary it passes
CallerDict(h, md) ==
  IF md = "none" THEN [heap |-> h, ref |-> NoRef]
  ELSE [heap |-> Append(h, IF md = "filled" THEN {"k"} ELSE {}),
        ref |-> Len(h) + 1]

\* MemoryEntry.__init__, line 29: self.metadata = metadata or {} -- the
\* caller's dictionary itself unless it is None or empty, else a new one
MetadataOrNew(h, ref) ==
  IF ref = NoRef \/ h[ref] = {}
  THEN [heap |-> Append(h, {}), ref |-> Len(h) + 1]
  ELSE [heap |-> h, ref |-> ref]

\* MemoryEntry.to_dict (lines 31-38) plus the similarity key: a new
\* dictionary whose "metadata" value is the entry's own dictionary
ToDict(res, metas) ==
  [text |-> res.text, role |-> res.role,
   timestamp |-> IsoFormat(res.timestamp),
   similarity |-> res.similarity,
   metadata |-> metas[res.idx + 1]]

\* add_memory(text, role, metadata): lines 60-91
AddMemoryWith(text, role, md) ==
  /\ ~IsBlank(text)
  /\ Len(memories) < MaxEntries
  /\ clock < MaxClock
  /\ Len(heap) + 2 <= MaxObjs
  /\ LET c == CallerDict(heap, md)
         e == MetadataOrNew(c.heap, c.ref)
     IN  /\ heap' = e.heap
         /\ entry_meta' = Append(entry_meta, e.ref)
         /\ passed' = IF c.ref = NoRef THEN passed ELSE passed \cup {c.ref}
  /\ clock' = clock + 1
  /\ index' = IndexAdd(index, Encode(text))
  /\ memories' = Append(memories, MemoryEntry(text, role, clock + 1))
  /\ total_entries' = total_entries + 1
  /\ Called("add_memory")
  /\ arg_text' = text
  /\ resets' = 0
  /\ lastMut' = "add"
  /\ UNCHANGED <<embedding_dim, tieBreak, concVars, simVars, agentVars,
                 agentHist, held>>

\* retrieve_similar(q) with top_k and exclude_current left at their
\* defaults, the caller keeping the dictionaries returned: lines 93-145
RetrieveDicts(q) ==
  /\ memories # <<>>
  /\ LET r == RetrieveResult(memories, index, total_entries, tieBreak, q,
                             DefaultTopK, TRUE)
     IN  /\ result' = r.results
         /\ raised' = r.raised
         /\ held' = [i \in 1..Len(r.results) |-> ToDict(r.results[i], entry_meta)]
  /\ op' = "retrieve_similar"
  /\ arg_q' = q
  /\ arg_k' = DefaultTopK
  /\ arg_ex' = TRUE
  /\ stats' = NoStats
  /\ Plain
  /\ arg_text' = <<>>
  /\ resets' = 0
  /\ RetrieveFrame
  /\ UNCHANGED <<clock, tieBreak, lastMut, concVars, simVars, agentVars,
                 agentHist, heap, entry_meta, passed>>

\* the caller assigns to a key of a result dictionary: d["text"] = ...
ChangeResult(i) ==
  /\ i \in 1..Len(held)
  /\ held[i].text # <<"z">>
  /\ held' = [held EXCEPT ![i].text = <<"z">>]
  /\ Called("change_result")
  /\ arg_text' = <<>>
  /\ resets' = 0
  /\ UNCHANGED <<storeVars, clock, tieBreak, lastMut, concVars, simVars,
                 agentVars, agentHist, heap, entry_meta, passed>>

\* the caller writes into the metadata value of a result: d["metadata"][k] = ...
ChangeResultMetadata(i, k) ==
  /\ i \in 1..Len(held)
  /\ k \notin heap[held[i].metadata]
  /\ heap' = [heap EXCEPT ![held[i].metadata] = @ \cup {k}]
  /\ Called("change_result_metadata")
  /\ arg_text' = <<>>
  /\ resets' = 0
  /\ UNCHANGED <<storeVars, clock, tieBreak, lastMut, concVars, simVars,
                 agentVars, agentHist, entry_meta, passed, held>>

\* the caller writes into a dictionary it passed to add_memory earlier
ChangePassedMetadata(ref, k) ==
  /\ ref \in passed
  /\ k \notin heap[ref]
  /\ heap' = [heap EXCEPT ![ref] = @ \cup {k}]
  /\ Called("change_passed_metadata")
  /\ arg_text' = <<>>
  /\ resets' = 0
  /\ UNCHANGED <<storeVars, clock, tieBreak, lastMut, concVars, simVars,
                 agentVars, agentHist, entry_meta, passed, held>>

NextAlias ==
  \/ \E text \in AliasTexts, md \in MetadataInputs :
       AddMemoryWith(text, "user", md)
  \/ \E q \in Queries : RetrieveDicts(q)
  \/ \E i \in 1..MaxEntries : ChangeResult(i)
  \/ \E i \in 1..MaxEntries, k \in MetaKeys : ChangeResultMetadata(i, k)
  \/ \E ref \in 1..MaxObjs, k \in MetaKeys : ChangePassedMetadata(ref, k)

SpecAlias == Init /\ [][NextAlias]_vars

\* the entries as the store holds them, each with what its metadata
\* dictionary contains
StoredEntries ==
  [i \in 1..Len(memories) |->
     [text |-> memories[i].text, role |-> memories[i].role,
      timestamp |-> memories[i].timestamp,
      metadata |-> heap[entry_meta[i]]]]

\* the steps in which the caller changes a dictionary it holds
CallerChanges ==
  { "change_result", "change_result_metadata", "change_passed_metadata" }

\* C30: a step in which the caller changes a result dictionary returned by
\* retrieve_similar, the metadata value of such a result, or the metadata
\* dictionary it passed to add_memory, changes no entry held in the store.
C30_NoAliasing ==
  [][op' \in CallerChanges => StoredEntries' = StoredEntries]_vars
====
